---- MODULE Spec2Model ----
(***************************************************************************)
(* The SChannel TLS session adapter of src/src/SSL.c: SSL_Init (with       *)
(* SSL_Connect and SSL_Negotiate), SSL_Read, SSL_Write and SSL_Free, over  *)
(* a blocking socket and the SSPI record engine.                           *)
(*                                                                         *)
(* One behaviour is one session. The program position pc is "idle"         *)
(* between calls of the public functions and otherwise names the blocking  *)
(* socket call the running function is at: inside SSL_SendRaw's loop       *)
(* (connect_send, neg_send, write_send) or at the entry of SSL_RecvRaw     *)
(* (neg_recv, read_recv). An action is the code from one such point to the *)
(* next one, or to the function's return.                                  *)
(*                                                                         *)
(* The socket and the SSPI engine are not part of the repository. The      *)
(* socket delivers any non-empty part of what the peer has sent, reports   *)
(* end of stream once all of it is delivered, accepts any part of what is  *)
(* written, and may fail. The engine is modelled by a record codec with    *)
(* the buffer contract the source's comments state (lines 181-183 and      *)
(* 339-343): header | payload | trailer, the payload deciphered in place,  *)
(* unprocessed input reported as an EXTRA buffer.                          *)
(***************************************************************************)
EXTENDS Integers, Sequences, FiniteSets, TLC

(* ------------------------------ bounds --------------------------------- *)

\* sizeof(ctx->incoming) and of SSL_WriteChunk's staging buffer, scaled down
\* from 16384 + 512 so that TLC can fill it.
TLS_MAX_PACKET_SIZE == 4

\* Most records in the stream the peer sends.
MaxInRecs == 2

\* Largest count a caller passes to SSL_Read.
MaxCount == 2

\* Most bytes the caller writes in one session (the largest count it passes to
\* SSL_Write is what is left of them).
MaxWritten == 3

\* Most socket calls that fail or take nothing in one session.
MaxSockErrs == 1

\* Most calls of SSL_Free in one session.
MaxFrees == 2

\* Most calls of SSL_Read and SSL_Write on a session that has failed.
MaxReuse == 1

\* Most pieces of text in the string SSLBackend_DescribeError appends to.
MaxText == 2

\* Most bytes the socket has taken when one more Socket_Write takes bytes.
MaxSockOut == 16

(* ------------------------------ helpers -------------------------------- *)

min(a, b) == IF a < b THEN a ELSE b

NULL == 0

Cap == TLS_MAX_PACKET_SIZE

\* The first n elements of sequence s, and s without them.
Take(s, n) == SubSeq(s, 1, n)
Drop(s, n) == SubSeq(s, n + 1, Len(s))

RECURSIVE Flatten(_)
Flatten(ss) == IF ss = <<>> THEN <<>> ELSE Head(ss) \o Flatten(Tail(ss))

\* All sequences over S of length 0..n.
SeqsUpTo(S, n) == UNION {[1..k -> S] : k \in 0..n}

(* --------------------------- result codes ------------------------------ *)

OK                       == "0"
SEC_E_OK                 == OK
SEC_I_CONTINUE_NEEDED    == "SEC_I_CONTINUE_NEEDED"
SEC_E_INCOMPLETE_MESSAGE == "SEC_E_INCOMPLETE_MESSAGE"
SEC_E_UNTRUSTED_ROOT     == "SEC_E_UNTRUSTED_ROOT"
SEC_E_INVALID_TOKEN      == "SEC_E_INVALID_TOKEN"
SEC_E_INVALID_HANDLE     == "SEC_E_INVALID_HANDLE"
SEC_E_MESSAGE_ALTERED    == "SEC_E_MESSAGE_ALTERED"
SEC_E_INTERNAL_ERROR     == "SEC_E_INTERNAL_ERROR"
SEC_E_CERT_EXPIRED       == "SEC_E_CERT_EXPIRED"
TRUST_E_CERT_SIGNATURE   == "TRUST_E_CERT_SIGNATURE"
SEC_E_UNSUPPORTED_FUNCTION == "SEC_E_UNSUPPORTED_FUNCTION"
SEC_E_SECPKG_NOT_FOUND   == "SEC_E_SECPKG_NOT_FOUND"
ERR_END_OF_STREAM        == "ERR_END_OF_STREAM"
ERR_INVALID_ARGUMENT     == "ERR_INVALID_ARGUMENT"
ERR_OUT_OF_MEMORY        == "ERR_OUT_OF_MEMORY"
ERR_NOT_SUPPORTED        == "ERR_NOT_SUPPORTED"
HTTP_ERR_NO_SSL          == "HTTP_ERR_NO_SSL"
SOCK_ERR                 == "SOCK_ERR"

(* ------------------------------ bytes ---------------------------------- *)

\* A byte is a record: what it is on the wire, and its value.
Byte(t, v)  == [t |-> t, v |-> v]
Zero        == Byte("nul", 0)
Plain(v)    == Byte("pt", v)
Hdr(n)      == Byte("hdr", n)
HdrPad      == Byte("hdrpad", 0)
Mac         == Byte("mac", 0)
Junk        == Byte("junk", 0)
HsPad       == Byte("hspad", 0)
HsContinue  == Byte("hsend", 1)
HsFinished  == Byte("hsend", 2)
HsAlert     == Byte("hsend", 3)
ClientHello == <<Byte("hello", 0), Byte("hello", 1)>>
ClientReply == <<Byte("reply", 0), Byte("reply", 1)>>

\* The cipher: a plaintext byte and its ciphertext differ, and each gives the other.
Enc(b) == Byte("ct", b.v)
Dec(b) == Byte("pt", b.v)

(* ---------------------- the SSPI engine (external) --------------------- *)

\* The stream sizes a negotiated context reports.
Sizes(h, t, m) == [cbHeader |-> h, cbTrailer |-> t, cbMaximumMessage |-> m]
NoSizes == Sizes(0, 0, 0)

\* EncryptMessage on header | data | trailer: the three filled in place.
EncryptMessage(sz, data) ==
  <<Hdr(Len(data))>> \o [i \in 1..(sz.cbHeader - 1) |-> HdrPad]
    \o [i \in 1..Len(data) |-> Enc(data[i])]
    \o [i \in 1..sz.cbTrailer |-> Mac]

\* DecryptMessage on the first record of `in`: SEC_E_INCOMPLETE_MESSAGE until the
\* whole record is there, then the content deciphered and the count of the bytes
\* after the record's trailer (the EXTRA buffer).
DecryptMessage(established, sz, in) ==
  LET fail(sec) == [sec |-> sec, plain |-> <<>>, extra |-> 0]
      n     == in[1].v
      total == sz.cbHeader + n + sz.cbTrailer
      body  == SubSeq(in, sz.cbHeader + 1, sz.cbHeader + n)
      mac   == SubSeq(in, sz.cbHeader + n + 1, total)
  IN  IF ~established THEN fail(SEC_E_INVALID_HANDLE)
      ELSE IF Len(in) < sz.cbHeader THEN fail(SEC_E_INCOMPLETE_MESSAGE)
      ELSE IF in[1].t # "hdr" THEN fail(SEC_E_MESSAGE_ALTERED)
      ELSE IF Len(in) < total THEN fail(SEC_E_INCOMPLETE_MESSAGE)
      ELSE IF \/ \E i \in 2..sz.cbHeader : in[i] # HdrPad
              \/ \E i \in 1..n : body[i].t # "ct"
              \/ \E i \in 1..sz.cbTrailer : mac[i] # Mac
           THEN fail(SEC_E_MESSAGE_ALTERED)
      ELSE [sec |-> SEC_E_OK, plain |-> [i \in 1..n |-> Dec(body[i])],
            extra |-> Len(in) - total]

\* A server handshake flight: a byte that says how many bytes follow it, padding,
\* and the byte that says what the flight is.
HsFlight(n, kind) == <<Byte("hs", n)>> \o [i \in 1..(n - 1) |-> HsPad] \o <<kind>>

\* InitializeSecurityContextA on the server's bytes: the engine asks for more
\* until it has a whole flight, consumes it and reports the rest as EXTRA.
InitializeSecurityContext(in) ==
  LET r(sec, out, extra) == [sec |-> sec, out |-> out, extra |-> extra]
      total == 1 + in[1].v
      kind  == in[total]
  IN  IF Len(in) < 1 THEN r(SEC_E_INCOMPLETE_MESSAGE, <<>>, 0)
      ELSE IF in[1].t # "hs" THEN r(SEC_E_INVALID_TOKEN, <<>>, 0)
      ELSE IF Len(in) < total THEN r(SEC_E_INCOMPLETE_MESSAGE, <<>>, 0)
      ELSE IF kind = HsContinue THEN r(SEC_I_CONTINUE_NEEDED, ClientReply, Len(in) - total)
      ELSE IF kind = HsFinished THEN r(SEC_E_OK, <<>>, Len(in) - total)
      ELSE IF kind = HsAlert THEN r(SEC_E_UNTRUSTED_ROOT, <<>>, 0)
      ELSE r(SEC_E_INVALID_TOKEN, <<>>, 0)

(* ---------------------------- struct SSLContext ------------------------ *)

\* Mem_TryAllocCleared: every field zero.
ClearedContext ==
  [sizes |-> NoSizes, bufferLen |-> 0, leftover |-> 0, decryptedSize |-> 0,
   decryptedData |-> NULL, incoming |-> [i \in 1..Cap |-> Zero]]

\* ctx->incoming[0 .. bufferLen). (A fill length above the capacity would read
\* past the array: that reads as zero here.)
Filled(c) == [i \in 1..c.bufferLen |-> IF i <= Cap THEN c.incoming[i] ELSE Zero]

\* memmove(incoming, incoming + off, n).
memmove(buf, off, n) ==
  [i \in 1..Cap |-> IF i <= n /\ off + i <= Cap THEN buf[off + i] ELSE buf[i]]

\* Socket_Read's destination: `bytes` stored at incoming + bufferLen.
Store(buf, at, bytes) ==
  [i \in 1..Cap |-> IF i > at /\ i <= at + Len(bytes) THEN bytes[i - at] ELSE buf[i]]

(* ------------------- the adapter's code, as functions ------------------ *)

\* (changed) The step that completes the handshake empties the buffer.
SSL_NegotiateShiftDropsAtEnd(c, sec, extra) ==
  IF sec = SEC_E_OK THEN [c EXCEPT !.bufferLen = 0]
  ELSE IF extra > 0
  THEN [c EXCEPT !.incoming  = memmove(@, c.bufferLen - extra, extra),
                 !.bufferLen = extra]
  ELSE IF sec # SEC_E_INCOMPLETE_MESSAGE
  THEN [c EXCEPT !.bufferLen = 0]
  ELSE c

\* (changed) The bytes moved to the front are the buffer's first, not its last.
SSL_NegotiateShiftFirst(c, sec, extra) ==
  IF extra > 0 THEN [c EXCEPT !.bufferLen = extra]
  ELSE IF sec # SEC_E_INCOMPLETE_MESSAGE THEN [c EXCEPT !.bufferLen = 0]
  ELSE c

\* SSL_Negotiate after the engine's step returned sec and reported `extra`
\* unprocessed bytes (0: no SECBUFFER_EXTRA): what it does to the buffer.
SSL_NegotiateShift(c, sec, extra) ==
  IF extra > 0
  THEN [c EXCEPT !.incoming  = memmove(@, c.bufferLen - extra, extra),
                 !.bufferLen = extra]
  ELSE IF sec # SEC_E_INCOMPLETE_MESSAGE
  THEN [c EXCEPT !.bufferLen = 0]
  ELSE c

\* One pass of SSL_Negotiate's for(;;) body, up to the call that leaves it:
\* "done" (break, sizes queried), "send" (SSL_SendRaw of the output token),
\* "return" (the engine's failure) or "recv" (SSL_RecvRaw).
SSL_NegotiatePass(c, sz) ==
  LET step == InitializeSecurityContext(Filled(c))
      c1   == SSL_NegotiateShift(c, step.sec, step.extra)
  IN  IF step.sec = SEC_E_OK
      THEN [to |-> "done", ctx |-> [c1 EXCEPT !.sizes = sz], res |-> OK, out |-> <<>>]
      ELSE IF step.sec = SEC_I_CONTINUE_NEEDED
      THEN [to |-> "send", ctx |-> c1, res |-> OK, out |-> step.out]
      ELSE IF step.sec # SEC_E_INCOMPLETE_MESSAGE
      THEN [to |-> "return", ctx |-> c1, res |-> step.sec, out |-> <<>>]
      ELSE [to |-> "recv", ctx |-> c1, res |-> OK, out |-> <<>>]

\* (changed) SSL_RecvRaw without its capacity test.
RecvNeverFull(c) == FALSE

\* SSL_RecvRaw's capacity test.
RecvFull(c) == c.bufferLen = Cap

\* (changed) One byte more than the buffer has room for.
RecvRoomPlusOne(c) == Cap - c.bufferLen + 1

\* The most SSL_RecvRaw lets Socket_Read store.
RecvRoom(c) == Cap - c.bufferLen

\* (changed) A Socket_Read that failed reported as the end of the stream.
SSL_RecvRawResultHidesError(res, read) ==
  IF read = 0 THEN ERR_END_OF_STREAM ELSE OK

\* (changed) A Socket_Read of no bytes reported like a full buffer.
SSL_RecvRawResultConflated(res, read) ==
  IF res # OK THEN res ELSE IF read = 0 THEN ERR_INVALID_ARGUMENT ELSE OK

\* SSL_RecvRaw's result after Socket_Read returned res and stored `read` bytes.
SSL_RecvRawResult(res, read) ==
  IF res # OK THEN res ELSE IF read = 0 THEN ERR_END_OF_STREAM ELSE OK

\* (changed) SSL_RecvRaw that stores the bytes but leaves the fill length alone.
SSL_RecvRawStoreNoAdvance(c, bytes) ==
  [c EXCEPT !.incoming = Store(@, c.bufferLen, bytes)]

\* SSL_RecvRaw after Socket_Read stored `bytes`.
SSL_RecvRawStore(c, bytes) ==
  [c EXCEPT !.incoming = Store(@, c.bufferLen, bytes), !.bufferLen = @ + Len(bytes)]

\* (changed) SSL_ReadDecrypted that counts the bytes it returned but does not
\* move decryptedData past them.
SSL_ReadDecryptedNoSlide(c, count) ==
  LET len  == min(count, c.decryptedSize)
      data == [i \in 1..len |-> c.incoming[c.decryptedData + i - 1]]
      c1   == IF len = c.decryptedSize
              THEN [c EXCEPT !.incoming      = memmove(@, c.bufferLen - c.leftover, c.leftover),
                             !.bufferLen     = c.leftover,
                             !.leftover      = 0,
                             !.decryptedData = NULL,
                             !.decryptedSize = 0]
              ELSE [c EXCEPT !.decryptedSize = @ - len]
  IN  [ctx |-> c1, res |-> OK, data |-> data]

\* (changed) SSL_ReadDecrypted that forgets the leftover ciphertext when the
\* decrypted data is used up.
SSL_ReadDecryptedDropsLeftover(c, count) ==
  LET len  == min(count, c.decryptedSize)
      data == [i \in 1..len |-> c.incoming[c.decryptedData + i - 1]]
      c1   == IF len = c.decryptedSize
              THEN [c EXCEPT !.bufferLen     = 0,
                             !.leftover      = 0,
                             !.decryptedData = NULL,
                             !.decryptedSize = 0]
              ELSE [c EXCEPT !.decryptedData = @ + len,
                             !.decryptedSize = @ - len]
  IN  [ctx |-> c1, res |-> OK, data |-> data]

SSL_ReadDecrypted(c, count) ==
  LET len  == min(count, c.decryptedSize)
      data == [i \in 1..len |-> c.incoming[c.decryptedData + i - 1]]
      c1   == IF len = c.decryptedSize
              THEN [c EXCEPT !.incoming      = memmove(@, c.bufferLen - c.leftover, c.leftover),
                             !.bufferLen     = c.leftover,
                             !.leftover      = 0,
                             !.decryptedData = NULL,
                             !.decryptedSize = 0]
              ELSE [c EXCEPT !.decryptedData = @ + len,
                             !.decryptedSize = @ - len]
  IN  [ctx |-> c1, res |-> OK, data |-> data]

\* One pass of SSL_Read's for(;;) body: "return" (plaintext served, or the
\* engine's failure) or "recv" (SSL_RecvRaw).
SSL_ReadPass(c, est, sz, count) ==
  LET d  == DecryptMessage(est, sz, Filled(c))
      c1 == [c EXCEPT !.incoming      = Store(@, sz.cbHeader, d.plain),
                      !.decryptedData = sz.cbHeader + 1,
                      !.decryptedSize = Len(d.plain),
                      !.leftover      = d.extra]
      s  == SSL_ReadDecrypted(c1, count)
  IN  IF c.bufferLen # 0 /\ d.sec = SEC_E_OK
      THEN [to |-> "return", ctx |-> s.ctx, res |-> s.res, data |-> s.data]
      ELSE IF c.bufferLen # 0 /\ d.sec # SEC_E_INCOMPLETE_MESSAGE
      THEN [to |-> "return", ctx |-> c, res |-> d.sec, data |-> <<>>]
      ELSE [to |-> "recv", ctx |-> c, res |-> OK, data |-> <<>>]

\* (changed) SSL_Read that does not look for decrypted data from previously.
SSL_ReadEnterIgnoresWindow(c, est, sz, count) == SSL_ReadPass(c, est, sz, count)

\* (changed) SSL_Read that reads from the socket before it looks at the buffer.
SSL_ReadEnterRecvFirst(c, est, sz, count) ==
  IF c.decryptedData # NULL
  THEN LET s == SSL_ReadDecrypted(c, count)
       IN  [to |-> "return", ctx |-> s.ctx, res |-> s.res, data |-> s.data]
  ELSE [to |-> "recv", ctx |-> c, res |-> OK, data |-> <<>>]

\* The DecryptMessage calls of one pass of SSL_Read's loop, or of SSL_Read when
\* it returns decrypted data from previously.
SSL_ReadAttempts(c) ==
  IF c.decryptedData # NULL THEN 0 ELSE IF c.bufferLen # 0 THEN 1 ELSE 0

\* SSL_Read up to its first SSL_RecvRaw.
SSL_ReadEnter(c, est, sz, count) ==
  IF c.decryptedData # NULL
  THEN LET s == SSL_ReadDecrypted(c, count)
       IN  [to |-> "return", ctx |-> s.ctx, res |-> s.res, data |-> s.data]
  ELSE SSL_ReadPass(c, est, sz, count)

\* (changed) The whole of the data as one chunk.
ChunkLenWhole(s, count) == count

\* SSL_Write's chunk length.
ChunkLen(s, count) == min(count, s.sizes.cbMaximumMessage)

\* SSL_WriteChunk up to its SSL_SendRaw: the record to send, or the engine's failure.
SSL_WriteChunk(s, est, data) ==
  IF ~est THEN [res |-> SEC_E_INVALID_HANDLE, out |-> <<>>]
  ELSE [res |-> OK, out |-> EncryptMessage(s.sizes, data)]

\* (changed) A Socket_Write that took no byte is tried again.
SSL_SendRawResultRetries(res, sent) == res

\* One pass of SSL_SendRaw's loop after Socket_Write returned res and took `sent`
\* bytes: the result it returns with, or 0 when it goes on.
SSL_SendRawResult(res, sent) ==
  IF res # OK THEN res ELSE IF sent = 0 THEN ERR_END_OF_STREAM ELSE OK

\* (changed) A Socket_Write that took some bytes counts as having taken all.
SendRestNone(data, sent) == <<>>

\* SSL_SendRaw after Socket_Write took `sent` bytes: what is left to send.
SendRest(data, sent) == Drop(data, sent)

\* SSL_Negotiate's loop on a socket that delivers `unit` bytes a call (fewer when
\* fewer are left or fit) and takes every byte written: the result, the context
\* and what the socket has left.
RECURSIVE NegotiateRun(_, _, _, _)
NegotiateRun(c, sz, in, unit) ==
  LET r    == SSL_NegotiatePass(c, sz)
      read == min(unit, min(Len(in), RecvRoom(r.ctx)))
      end(res) == [res |-> res, ctx |-> r.ctx, in |-> in]
  IN  IF r.to \in {"done", "return"} THEN end(r.res)
      ELSE IF r.to = "send" THEN NegotiateRun(r.ctx, sz, in, unit)
      ELSE IF RecvFull(r.ctx) THEN end(ERR_INVALID_ARGUMENT)
      ELSE IF read = 0 THEN end(ERR_END_OF_STREAM)
      ELSE NegotiateRun(SSL_RecvRawStore(r.ctx, Take(in, read)), sz, Drop(in, read), unit)

\* SSL_Read's loop on such a socket, from the pass r on.
RECURSIVE ReadRun(_, _, _, _, _, _)
ReadRun(r, est, sz, in, count, unit) ==
  LET read == min(unit, min(Len(in), RecvRoom(r.ctx)))
      end(res) == [res |-> res, data |-> r.data, ctx |-> r.ctx, in |-> in]
  IN  IF r.to = "return" THEN end(r.res)
      ELSE IF RecvFull(r.ctx) THEN end(ERR_INVALID_ARGUMENT)
      ELSE IF read = 0 THEN end(ERR_END_OF_STREAM)
      ELSE ReadRun(SSL_ReadPass(SSL_RecvRawStore(r.ctx, Take(in, read)), est, sz, count),
                   est, sz, Drop(in, read), count, unit)

\* SSL_Read on such a socket.
SSL_ReadOn(c, est, sz, in, count, unit) ==
  ReadRun(SSL_ReadEnter(c, est, sz, count), est, sz, in, count, unit)

(* ------------------------------- state --------------------------------- *)

VARIABLES
  backend,   \* SSLBackend_Init's result: "unloaded" (_InitSecurityInterfaceA is
             \* NULL), "notable" (it returns no function table) or "ok"
  fpLoaded,  \* FP_InitializeSecurityContextA is set
  suite,     \* the stream sizes of the cipher suite the engine negotiates
  wireIn,    \* everything the peer sends in this session
  sockIn,    \* the part of wireIn the socket has not delivered yet
  sockOut,   \* everything the socket has accepted from Socket_Write
  sockErrs,  \* the socket calls that failed or took nothing so far
  mem,       \* the struct SSLContext: "none", "live" or "freed"
  handle,    \* ctx->handle (credentials): "none", "valid" or "freed"
  eng,       \* ctx->context: "none", "handshaking", "established", "failed", "deleted"
  ctx,       \* the other fields of struct SSLContext
  pc,        \* the program position
  op,        \* the locals of the running call
  life,      \* the lifecycle state of the session
  last,      \* what the last call returned
  hist,      \* what the calls so far have done
  whole,     \* the same calls on a socket that delivers all it has in one call
  freed,     \* the release calls SSL_Free has made so far
  errCode,   \* the res last passed to SSLBackend_DescribeError
  errText,   \* the string dst passed to SSLBackend_DescribeError, in pieces
  described  \* what SSLBackend_DescribeError last returned

vars == <<backend, fpLoaded, suite, wireIn, sockIn, sockOut, sockErrs, mem, handle,
          eng, ctx, pc, op, life, last, hist, whole, freed, errCode, errText,
          described>>

\* What SSLBackend_DescribeError works on: no function of a session touches it.
descVars == <<errCode, errText, described>>

\* The session: SSLBackend_DescribeError touches none of it.
sessVars == <<backend, fpLoaded, suite, wireIn, sockIn, sockOut, sockErrs, mem, handle,
              eng, ctx, pc, op, life, last, hist, whole, freed>>

envVars  == <<backend, suite, wireIn, descVars>>
sockVars == <<sockIn, sockOut, sockErrs>>
engVars  == <<mem, handle, eng, fpLoaded>>

\* The locals of the running call. name: the public function; pending:
\* SSL_SendRaw's data / count; wdata: SSL_Write's data / count; wlen: its chunk
\* length; wrote: *wrote; rcount: SSL_Read's count; nRecv: the Socket_Read calls
\* made; req: the bytes SSL_Write was given; base: the length of sockOut when the
\* call began; win: SSL_Read found decrypted data from previously; io: how its
\* last socket call ended ("none" before the first, "bytes", "zero" or "error");
\* nDec: the DecryptMessage calls SSL_Read has made.
NoOp == [name |-> "none", pending |-> <<>>, wdata |-> <<>>, wlen |-> 0, wrote |-> 0,
         rcount |-> 0, nRecv |-> 0, req |-> <<>>, base |-> 0, win |-> FALSE,
         io |-> "none", nDec |-> 0]

\* What a call returned: its result, the bytes SSL_Read stored (*read is their
\* count), *wrote, and of its locals those that say what the call was.
Last(o, res, data) ==
  [name |-> o.name, res |-> res, data |-> data, wrote |-> o.wrote,
   count |-> o.rcount, req |-> o.req, base |-> o.base, nRecv |-> o.nRecv,
   win |-> o.win, io |-> o.io, nDec |-> o.nDec]

\* written: the bytes of the SSL_Write calls that succeeded; wfail: an SSL_Write
\* failed; init: how SSL_Init ended; hsOut: the length of sockOut when it did;
\* reuse: the calls of SSL_Read and SSL_Write made on the session after it failed;
\* burst: one Socket_Read has stored two whole records in the empty buffer.
NoHist == [written |-> <<>>, wfail |-> FALSE, init |-> "none", hsOut |-> 0,
           reuse |-> 0, burst |-> FALSE]

\* The cipher suites the engine may negotiate: a one-byte header, no trailer or a
\* one-byte trailer, and a largest message whose record fits TLS_MAX_PACKET_SIZE.
Suites == {Sizes(1, t, Cap - 2) : t \in 0..1}

\* The plaintext the peer sends, and the plaintext the caller writes: byte i of
\* either stream is i, so that a lost, doubled or moved byte shows.
Tape(from, n) == [i \in 1..n |-> Plain(from + i)]

\* The longest payload of a record the peer sends: one more than fits the buffer.
MaxInLen(sz) == Cap - sz.cbHeader - sz.cbTrailer + 1

RECURSIVE PeerRecords(_, _, _)
PeerRecords(sz, lens, from) ==
  IF lens = <<>> THEN <<>>
  ELSE EncryptMessage(sz, Tape(from, Head(lens)))
         \o PeerRecords(sz, Tail(lens), from + Head(lens))

\* What a peer may send: the handshake and up to MaxInRecs records; the same cut
\* short by one byte, or followed by a byte that is no record, for up to one
\* record; a handshake of two flights; a handshake that ends in an alert; a
\* flight too long for the buffer.
PeerStreams(sz) ==
  LET recs(n) == {PeerRecords(sz, lens, 0) : lens \in SeqsUpTo(0..MaxInLen(sz), n)}
      done    == HsFlight(1, HsFinished)
  IN       {done \o r : r \in recs(MaxInRecs)}
      \cup {Take(done \o r, Len(r) + 1) : r \in recs(1)}
      \cup {done \o r \o <<Junk>> : r \in recs(1)}
      \cup {HsFlight(1, HsContinue) \o done \o r : r \in recs(1)}
      \cup {HsFlight(1, HsAlert) \o r : r \in recs(1)}
      \cup {HsFlight(Cap, HsFinished)}

\* Before SSL_Init.
InitSession ==
  /\ backend \in {"unloaded", "notable", "ok"}
  /\ fpLoaded = FALSE
  /\ suite \in Suites
  /\ wireIn \in PeerStreams(suite)
  /\ backend # "ok" => wireIn = HsFlight(1, HsFinished)
  /\ sockIn = wireIn
  /\ sockOut = <<>>
  /\ sockErrs = 0
  /\ mem = "none"
  /\ handle = "none"
  /\ eng = "none"
  /\ ctx = ClearedContext
  /\ pc = "idle"
  /\ op = NoOp
  /\ life = "Uninitialized"
  /\ last = Last(NoOp, OK, <<>>)
  /\ hist = NoHist
  /\ whole = [ctx |-> ClearedContext, in |-> wireIn, est |-> FALSE, res |-> OK,
              data |-> <<>>, clean |-> TRUE]
  /\ freed = [context |-> 0, handle |-> 0, mem |-> 0]

Init ==
  /\ InitSession
  /\ errCode = OK
  /\ errText = <<>>
  /\ described = FALSE

(* ------------------------------ actions -------------------------------- *)

Established == eng = "established"

\* `bytes` begins with two whole records that carry plaintext.
TwoRecords(sz, bytes) ==
  LET d1 == DecryptMessage(TRUE, sz, bytes)
      d2 == DecryptMessage(TRUE, sz, Drop(bytes, Len(bytes) - d1.extra))
  IN  /\ d1.sec = SEC_E_OK /\ d1.plain # <<>> /\ d1.extra > 0
      /\ d2.sec = SEC_E_OK /\ d2.plain # <<>>

\* This step's Socket_Read, made by SSL_Read, stores two whole records in the
\* empty buffer.
Burst ==
  /\ pc = "read_recv"
  /\ ctx.bufferLen = 0
  /\ TwoRecords(suite, Take(sockIn, Len(sockIn) - Len(sockIn')))

\* The running call returns res; `out` is sockOut as the call leaves it.
Returns(o, res, data, out) ==
  /\ pc' = "idle"
  /\ op' = NoOp
  /\ last' = Last(o, res, data)
  /\ life' = IF res # OK THEN "Failed"
             ELSE IF o.name = "Init" THEN "Established" ELSE life
  /\ hist' = [hist EXCEPT
       !.burst   = @ \/ Burst,
       !.written = IF o.name = "Write" /\ res = OK THEN @ \o o.req ELSE @,
       !.wfail   = @ \/ (o.name = "Write" /\ res # OK),
       !.init    = IF o.name # "Init" THEN @ ELSE IF res = OK THEN "ok" ELSE "failed",
       !.hsOut   = IF o.name = "Init" THEN Len(out) ELSE @,
       !.reuse   = IF o.name \in {"Read", "Write"} /\ life = "Failed" THEN @ + 1 ELSE @]

\* The running call goes on to the socket call `at`.
Blocks(o, at) ==
  /\ pc' = at
  /\ op' = o
  /\ hist' = [hist EXCEPT !.burst = @ \/ Burst]
  /\ UNCHANGED <<last, life>>

\* SSL_Negotiate from the top of its loop.
SSL_Negotiate(c, o, out) ==
  LET r == SSL_NegotiatePass(c, suite)
  IN  /\ ctx' = r.ctx
      /\ CASE r.to = "done"   -> eng' = "established" /\ Returns(o, OK, <<>>, out)
           [] r.to = "send"   -> eng' = eng /\ Blocks([o EXCEPT !.pending = r.out], "neg_send")
           [] r.to = "recv"   -> eng' = eng /\ Blocks(o, "neg_recv")
           [] r.to = "return" -> eng' = "failed" /\ Returns(o, r.res, <<>>, out)

\* SSL_Read after a pass r of its loop (or after SSL_ReadDecrypted).
SSL_ReadGoesOn(r, o) ==
  /\ ctx' = r.ctx
  /\ eng' = eng
  /\ IF r.to = "return" THEN Returns(o, r.res, r.data, sockOut)
                        ELSE Blocks(o, "read_recv")

\* SSL_WriteChunk's header, data and trailer are more than its buffer[] holds:
\* Mem_Copy and EncryptMessage write past its end.
StagingOverflows(s, count) ==
  s.sizes.cbHeader + count + s.sizes.cbTrailer > Cap

\* The running call does not return: the process stops in it.
Crashes(o) ==
  /\ pc' = "crashed"
  /\ op' = o
  /\ UNCHANGED <<last, life, hist>>

\* SSL_Write from the top of its while (count) loop. A write past the end of
\* SSL_WriteChunk's buffer may stop the process or may go unnoticed.
SSL_WriteLoop(o, out) ==
  /\ UNCHANGED <<ctx, eng>>
  /\ IF o.wdata = <<>> THEN Returns(o, OK, <<>>, out)
     ELSE LET len == ChunkLen(ctx, Len(o.wdata))
              w   == SSL_WriteChunk(ctx, Established, Take(o.wdata, len))
          IN  \/ /\ StagingOverflows(ctx, len)
                 /\ Crashes([o EXCEPT !.wlen = len])
              \/ IF w.res # OK THEN Returns(o, w.res, <<>>, out)
                 ELSE Blocks([o EXCEPT !.wlen = len, !.pending = w.out], "write_send")

\* (changed) SSL_Write that does not move data on: *wrote += len; count -= len.
SSL_WriteAdvanceCountOnly(o) ==
  [o EXCEPT !.wrote = @ + o.wlen, !.wdata = Take(@, Len(@) - o.wlen)]

\* SSL_Write after SSL_WriteChunk returned 0: *wrote += len; data += len; count -= len.
SSL_WriteAdvance(o) ==
  [o EXCEPT !.wrote = @ + o.wlen, !.wdata = Drop(@, o.wlen)]

\* A socket call failed: the run on the whole-delivery socket is no longer the
\* same session.
Unclean ==
  whole' = [ctx |-> ClearedContext, in |-> <<>>, est |-> FALSE, res |-> OK,
            data |-> <<>>, clean |-> FALSE]

\* (changed) SSL_Init that does not look for the backend.
SSL_InitBackendUnchecked(b) == OK

\* SSL_Init's first lines: the result it returns with when the backend is not
\* there, or 0 when it goes on.
SSL_InitBackend(b) ==
  IF b = "unloaded" THEN HTTP_ERR_NO_SSL
  ELSE IF b = "notable" THEN ERR_NOT_SUPPORTED
  ELSE OK

\* (changed) The hello goes out before SSL_Init has anything to fail on.
HelloFirst ==
  /\ sockOut' = sockOut \o ClientHello
  /\ UNCHANGED <<sockIn, sockErrs>>

\* SSL_Init makes no socket call before SSL_Connect's SSL_SendRaw.
Untouched == UNCHANGED sockVars

SSL_Init ==
  /\ pc = "idle"
  /\ life = "Uninitialized"
  /\ UNCHANGED <<envVars, freed>>
  /\ Untouched
  /\ LET o == [NoOp EXCEPT !.name = "Init"]
     IN  \/ /\ SSL_InitBackend(backend) # OK
            /\ Returns(o, SSL_InitBackend(backend), <<>>, sockOut')
            /\ UNCHANGED <<fpLoaded, mem, handle, eng, ctx, whole>>
         \/ /\ SSL_InitBackend(backend) = OK
            /\ fpLoaded' = TRUE
            /\ \/ /\ Returns(o, ERR_OUT_OF_MEMORY, <<>>, sockOut')
                  /\ UNCHANGED <<mem, handle, eng, ctx, whole>>
               \/ /\ mem' = "live"
                  /\ ctx' = ClearedContext
                  /\ \/ /\ Returns(o, SEC_E_SECPKG_NOT_FOUND, <<>>, sockOut')
                        /\ UNCHANGED <<handle, eng, whole>>
                     \/ /\ handle' = "valid"
                        /\ Returns(o, SEC_E_INTERNAL_ERROR, <<>>, sockOut')
                        /\ UNCHANGED <<eng, whole>>
                     \/ /\ handle' = "valid"
                        /\ eng' = "handshaking"
                        /\ Blocks([o EXCEPT !.pending = ClientHello], "connect_send")
                        /\ LET w == NegotiateRun(ClearedContext, suite, wireIn, Cap)
                           IN  whole' = [whole EXCEPT !.ctx = w.ctx, !.in = w.in,
                                                      !.res = w.res, !.est = w.res = OK]

\* One Socket_Write of SSL_SendRaw's loop, and what follows it.
SSL_SendRaw ==
  /\ pc \in {"connect_send", "neg_send", "write_send"}
  /\ UNCHANGED <<envVars, sockIn, mem, handle, fpLoaded, freed>>
  /\ \/ /\ sockErrs < MaxSockErrs
        /\ sockErrs' = sockErrs + 1
        /\ UNCHANGED <<sockOut, ctx, eng>>
        /\ Unclean
        /\ \E how \in {"error", "zero"} :
             LET res == SSL_SendRawResult(IF how = "error" THEN SOCK_ERR ELSE OK, 0)
                 o   == [op EXCEPT !.io = how]
             IN  IF res # OK THEN Returns(o, res, <<>>, sockOut) ELSE Blocks(o, pc)
     \/ \E sent \in 1..Len(op.pending) :
          LET out  == sockOut \o Take(op.pending, sent)
              rest == SendRest(op.pending, sent)
              o    == [op EXCEPT !.pending = rest, !.io = "bytes"]
          IN  /\ SSL_SendRawResult(OK, sent) = OK
              /\ Len(sockOut) < MaxSockOut
              /\ sockOut' = out
              /\ UNCHANGED <<sockErrs, whole>>
              /\ IF rest # <<>> THEN Blocks(o, pc) /\ UNCHANGED <<ctx, eng>>
                 ELSE IF pc = "write_send" THEN SSL_WriteLoop(SSL_WriteAdvance(o), out)
                 ELSE SSL_Negotiate(ctx, o, out)

\* SSL_RecvRaw, and what follows it.
SSL_RecvRaw ==
  /\ pc \in {"neg_recv", "read_recv"}
  /\ UNCHANGED <<envVars, sockOut, mem, handle, fpLoaded, freed>>
  /\ LET o(how) == [op EXCEPT !.nRecv = @ + 1, !.io = how]
     IN  \/ /\ RecvFull(ctx)
            /\ UNCHANGED <<sockIn, sockErrs, ctx, eng, whole>>
            /\ Returns(op, ERR_INVALID_ARGUMENT, <<>>, sockOut)
         \/ /\ ~RecvFull(ctx)
            /\ sockErrs < MaxSockErrs
            /\ sockErrs' = sockErrs + 1
            /\ UNCHANGED <<sockIn, ctx, eng>>
            /\ Unclean
            /\ Returns(o("error"), SSL_RecvRawResult(SOCK_ERR, 0), <<>>, sockOut)
         \/ /\ ~RecvFull(ctx)
            /\ min(Len(sockIn), RecvRoom(ctx)) = 0
            /\ UNCHANGED <<sockIn, sockErrs, ctx, eng, whole>>
            /\ Returns(o("zero"), SSL_RecvRawResult(OK, 0), <<>>, sockOut)
         \/ /\ ~RecvFull(ctx)
            /\ \E read \in 1..min(Len(sockIn), RecvRoom(ctx)) :
                 LET c == SSL_RecvRawStore(ctx, Take(sockIn, read))
                 IN  /\ SSL_RecvRawResult(OK, read) = OK
                     /\ sockIn' = Drop(sockIn, read)
                     /\ UNCHANGED <<sockErrs, whole>>
                     /\ IF pc = "neg_recv" THEN SSL_Negotiate(c, o("bytes"), sockOut)
                        ELSE SSL_ReadGoesOn(SSL_ReadPass(c, Established, suite, op.rcount),
                                            [o("bytes") EXCEPT !.nDec = @ + SSL_ReadAttempts(c)])

\* The caller may call SSL_Read and SSL_Write on a context SSL_Init allocated.
Callable ==
  /\ pc = "idle"
  /\ mem = "live"
  /\ life = "Established" \/ (life = "Failed" /\ hist.reuse < MaxReuse)

SSL_Read ==
  /\ Callable
  /\ UNCHANGED <<envVars, sockVars, mem, handle, fpLoaded, freed>>
  /\ \E count \in 1..MaxCount :
       LET o == [NoOp EXCEPT !.name = "Read", !.rcount = count, !.base = Len(sockOut),
                             !.win = ctx.decryptedData # NULL,
                             !.nDec = SSL_ReadAttempts(ctx)]
           w == SSL_ReadOn(whole.ctx, whole.est, suite, whole.in, count, Cap)
       IN  /\ SSL_ReadGoesOn(SSL_ReadEnter(ctx, Established, suite, count), o)
           /\ whole' = IF whole.clean /\ hist.init = "ok"
                       THEN [whole EXCEPT !.ctx = w.ctx, !.in = w.in, !.res = w.res,
                                          !.data = w.data]
                       ELSE whole

SSL_Write ==
  /\ Callable
  /\ UNCHANGED <<envVars, sockVars, mem, handle, fpLoaded, whole, freed>>
  /\ \E count \in 0..(MaxWritten - Len(hist.written)) :
       LET data == Tape(Len(hist.written), count)
           o    == [NoOp EXCEPT !.name = "Write", !.wdata = data, !.req = data,
                                !.base = Len(sockOut)]
       IN  SSL_WriteLoop(o, sockOut)

\* FP_DeleteSecurityContext(&ctx->context).
DeleteSecurityContext(e) == "deleted"

\* (changed) SSL_Free that leaves the credentials handle alone.
KeepCredentialsHandle(h) == h

\* FP_FreeCredentialsHandle(&ctx->handle).
FreeCredentialsHandle(h) == "freed"

\* Mem_Free(ctx).
Mem_Free(m) == "freed"

\* SSL_Free. A second call works on freed memory: it may return or crash.
SSL_Free ==
  /\ pc = "idle"
  /\ mem \in {"live", "freed"}
  /\ freed.mem < MaxFrees
  /\ UNCHANGED <<envVars, sockVars, fpLoaded, ctx, hist, whole>>
  /\ eng' = DeleteSecurityContext(eng)
  /\ handle' = FreeCredentialsHandle(handle)
  /\ mem' = Mem_Free(mem)
  /\ freed' = [context |-> freed.context + 1, handle |-> freed.handle + 1,
               mem |-> freed.mem + 1]
  /\ life' = "Closed"
  /\ op' = NoOp
  /\ \/ /\ pc' = "idle"
        /\ last' = Last([NoOp EXCEPT !.name = "Free"], OK, <<>>)
     \/ /\ mem = "freed"
        /\ pc' = "crashed"
        /\ last' = last

(* ---------------------- SSLBackend_DescribeError ----------------------- *)

\* String_AppendConst(dst, text): the text becomes the string's last piece.
String_AppendConst(dst, text) == Append(dst, text)

\* (changed) The case of TRUST_E_CERT_SIGNATURE is missing.
SSLBackend_DescribeErrorThree(res, dst) ==
  LET says(text) == [ok |-> TRUE, dst |-> String_AppendConst(dst, text)]
  IN  CASE res = SEC_E_UNTRUSTED_ROOT ->
             says("The website's SSL certificate was issued by an authority that is not trusted")
        [] res = SEC_E_CERT_EXPIRED ->
             says("The website's SSL certificate has expired")
        [] res = SEC_E_UNSUPPORTED_FUNCTION ->
             says("The website uses an incompatible SSL/TLS version")
        [] OTHER -> [ok |-> FALSE, dst |-> dst]

\* SSLBackend_DescribeError: its return value and the string as it leaves it.
SSLBackend_DescribeError(res, dst) ==
  LET says(text) == [ok |-> TRUE, dst |-> String_AppendConst(dst, text)]
  IN  CASE res = SEC_E_UNTRUSTED_ROOT ->
             says("The website's SSL certificate was issued by an authority that is not trusted")
        [] res = SEC_E_CERT_EXPIRED ->
             says("The website's SSL certificate has expired")
        [] res = TRUST_E_CERT_SIGNATURE ->
             says("The signature of the website's SSL certificate cannot be verified")
        [] res = SEC_E_UNSUPPORTED_FUNCTION ->
             says("The website uses an incompatible SSL/TLS version")
        [] OTHER -> [ok |-> FALSE, dst |-> dst]

\* The results a caller may ask about: every result of the session's functions
\* and the further ones SSLBackend_DescribeError knows.
ResultCodes ==
  {OK, SEC_I_CONTINUE_NEEDED, SEC_E_INCOMPLETE_MESSAGE, SEC_E_UNTRUSTED_ROOT,
   SEC_E_INVALID_TOKEN, SEC_E_INVALID_HANDLE, SEC_E_MESSAGE_ALTERED,
   SEC_E_INTERNAL_ERROR, SEC_E_CERT_EXPIRED, TRUST_E_CERT_SIGNATURE,
   SEC_E_UNSUPPORTED_FUNCTION, SEC_E_SECPKG_NOT_FOUND, ERR_END_OF_STREAM,
   ERR_INVALID_ARGUMENT, ERR_OUT_OF_MEMORY, ERR_NOT_SUPPORTED, HTTP_ERR_NO_SSL,
   SOCK_ERR}

\* The strings a caller starts from: empty, or with text of its own.
CallerTexts == {<<>>, <<"SSL error: ">>, <<"Error ", "in SSL: ">>}

\* A call of SSLBackend_DescribeError, with any result and the string so far.
DescribeError ==
  /\ Len(errText) < MaxText
  /\ \E res \in ResultCodes :
       LET r == SSLBackend_DescribeError(res, errText)
       IN  /\ errCode' = res
           /\ errText' = r.dst
           /\ described' = r.ok
  /\ UNCHANGED sessVars

\* Before the calls of SSLBackend_DescribeError: no session, any caller's string.
InitDescribe ==
  /\ InitSession
  /\ backend = "unloaded"
  /\ suite = Sizes(1, 1, Cap - 2)
  /\ errCode = OK
  /\ errText \in CallerTexts
  /\ described = FALSE

NextDescribe == DescribeError

SpecDescribe == InitDescribe /\ [][NextDescribe]_vars

Next == SSL_Init \/ SSL_SendRaw \/ SSL_RecvRaw \/ SSL_Read \/ SSL_Write \/ SSL_Free

Spec == Init /\ [][Next]_vars

\* The stream sizes QueryContextAttributes may store in ctx->sizes: the code
\* takes them as they come. A header of one byte, no trailer or one of one byte,
\* and every largest message from 0 to TLS_MAX_PACKET_SIZE.
ReportedSizes == {Sizes(1, t, m) : t \in 0..1, m \in 0..Cap}

\* Before SSL_Init, for a server that sends its handshake and nothing else and
\* an engine that reports any of these sizes.
InitSizes ==
  /\ backend = "ok"
  /\ fpLoaded = FALSE
  /\ suite \in ReportedSizes
  /\ wireIn = HsFlight(1, HsFinished)
  /\ sockIn = wireIn
  /\ sockOut = <<>>
  /\ sockErrs = 0
  /\ mem = "none"
  /\ handle = "none"
  /\ eng = "none"
  /\ ctx = ClearedContext
  /\ pc = "idle"
  /\ op = NoOp
  /\ life = "Uninitialized"
  /\ last = Last(NoOp, OK, <<>>)
  /\ hist = NoHist
  /\ whole = [ctx |-> ClearedContext, in |-> wireIn, est |-> FALSE, res |-> OK,
              data |-> <<>>, clean |-> TRUE]
  /\ freed = [context |-> 0, handle |-> 0, mem |-> 0]
  /\ errCode = OK
  /\ errText = <<>>
  /\ described = FALSE

SpecSizes == InitSizes /\ [][Next]_vars

\* The sessions that only read.
NextRead == SSL_Init \/ SSL_SendRaw \/ SSL_RecvRaw \/ SSL_Read \/ SSL_Free

\* Every Socket_Read returns: weak fairness of SSL_RecvRaw, which is enabled
\* exactly when a call is at it, written without ENABLED.
SocketReadReturns ==
  \/ []<>(pc \notin {"neg_recv", "read_recv"})
  \/ []<><<SSL_RecvRaw>>_vars

SpecRead == Init /\ [][NextRead]_vars /\ SocketReadReturns

(* ------------------------------ properties ----------------------------- *)

\* The payloads of the records that make up `wire`, in order; ok: `wire` is whole
\* records and nothing else.
RECURSIVE Records(_, _)
Records(sz, wire) ==
  IF wire = <<>> THEN [ok |-> TRUE, recs |-> <<>>]
  ELSE LET d    == DecryptMessage(TRUE, sz, wire)
           rest == Records(sz, Drop(wire, Len(wire) - d.extra))
       IN  IF d.sec # SEC_E_OK THEN [ok |-> FALSE, recs |-> <<>>]
           ELSE [ok |-> rest.ok, recs |-> <<d.plain>> \o rest.recs]

\* A peer's session right after its handshake, and what its SSL_Read calls with
\* the same count return, one after the other, until one fails: the failure and
\* the bytes read before it.
PeerContext == [ClearedContext EXCEPT !.sizes = suite]

RECURSIVE Drain(_, _, _, _, _)
Drain(c, in, count, unit, fuel) ==
  LET r == SSL_ReadOn(c, TRUE, suite, in, count, unit)
      d == Drain(r.ctx, r.in, count, unit, fuel - 1)
  IN  IF r.res # OK \/ fuel = 0 THEN [res |-> r.res, data |-> <<>>]
      ELSE [res |-> d.res, data |-> r.data \o d.data]

\* This step is a call of SSL_Read: it returns at once or goes on to SSL_RecvRaw.
ReadCalled ==
  /\ pc = "idle"
  /\ \/ pc' = "read_recv"
     \/ pc' = "idle" /\ last'.name = "Read"

\* This step is a call of SSL_Free on a session that has not been freed.
FreeCalled ==
  /\ pc = "idle"
  /\ mem = "live"
  /\ freed'.mem = freed.mem + 1

\* C1: in every reachable state the fill length of the incoming buffer is
\* between 0 and the buffer's capacity, in the session and in the same session
\* run on a socket that delivers all it has.
FillWithinCapacity ==
  /\ ctx.bufferLen \in 0..Cap
  /\ ctx.leftover \in 0..ctx.bufferLen
  /\ whole.ctx.bufferLen \in 0..Cap

\* C1's case: an established session whose buffer is filled to capacity while
\* SSL_Read waits for more.
FillReachesCapacity ==
  /\ pc = "read_recv"
  /\ Established
  /\ ctx.bufferLen = Cap

\* C2: when SSL_Negotiate or SSL_Read goes to read more while the buffer is
\* filled to capacity, the call returns ERR_INVALID_ARGUMENT in that step, the
\* socket is not read and the buffer and its fill length stay as they are.
CapacityIsFatal ==
  [][(pc \in {"neg_recv", "read_recv"} /\ ctx.bufferLen = Cap)
       => /\ pc' = "idle"
          /\ last'.name = op.name
          /\ last'.res = ERR_INVALID_ARGUMENT
          /\ sockIn' = sockIn
          /\ ctx' = ctx]_vars

\* C2's case: SSL_Read has failed on a full buffer with bytes still to come.
CapacityFailure ==
  /\ pc = "idle"
  /\ last.name = "Read"
  /\ last.res = ERR_INVALID_ARGUMENT
  /\ ctx.bufferLen = Cap
  /\ sockIn # <<>>

\* C3: when SSL_Write has returned 0, *wrote is the count it was given, and the
\* socket has taken, since the call began, whole records whose payloads are the
\* bytes it was given.
WriteAllOrFail ==
  (pc = "idle" /\ last.name = "Write" /\ last.res = OK)
    => /\ last.wrote = Len(last.req)
       /\ LET r == Records(ctx.sizes, Drop(sockOut, last.base))
          IN  r.ok /\ Flatten(r.recs) = last.req

\* C3's case: a successful SSL_Write of more than one chunk.
WroteAll ==
  /\ pc = "idle"
  /\ last.name = "Write"
  /\ last.res = OK
  /\ Len(last.req) = MaxWritten
  /\ last.wrote = MaxWritten

\* C4: the records an SSL_Write has made so far, sent or being sent, carry at
\* most cbMaximumMessage bytes each, every one but the last carries exactly
\* that many, and their payloads in order are the first bytes it was given;
\* when it has returned 0 they are all the bytes it was given.
ChunkBound ==
  LET M       == ctx.sizes.cbMaximumMessage
      writing == pc = "write_send"
      o       == IF writing THEN op ELSE last
      r       == Records(ctx.sizes, Drop(sockOut, o.base) \o (IF writing THEN op.pending ELSE <<>>))
      n       == Len(r.recs)
      all     == Flatten(r.recs)
  IN  (writing \/ (pc = "idle" /\ last.name = "Write" /\ last.res = OK))
        => /\ r.ok
           /\ \A i \in 1..n : Len(r.recs[i]) <= M
           /\ \A i \in 1..(n - 1) : Len(r.recs[i]) = M
           /\ Len(all) <= Len(o.req)
           /\ all = Take(o.req, Len(all))
           /\ ~writing => all = o.req

\* C4's case: SSL_Write has returned 0 for more bytes than one record carries, and
\* the socket holds its two records.
WroteTwoRecords ==
  /\ pc = "idle"
  /\ last.name = "Write"
  /\ last.res = OK
  /\ Len(last.req) > ctx.sizes.cbMaximumMessage
  /\ Len(Records(ctx.sizes, Drop(sockOut, last.base)).recs) = 2

\* C5: while no SSL_Write has failed, what a peer session reads from the bytes the
\* socket has taken since the handshake, whatever count it reads with and whether
\* its socket delivers one byte a call or all it has, is the bytes the SSL_Write
\* calls were given, in order, and then the end of the stream.
RoundTrip ==
  (pc = "idle" /\ hist.init = "ok" /\ ~hist.wfail)
    => \A count \in 1..MaxCount : \A unit \in {1, Cap} :
         LET wire == Drop(sockOut, hist.hsOut)
             d    == Drain(PeerContext, wire, count, unit, Len(wire) + 1)
         IN  d.res = ERR_END_OF_STREAM /\ d.data = hist.written

\* C5's case: the bytes were written in more than one SSL_Write call.
WroteInSeveralCalls ==
  /\ pc = "idle"
  /\ hist.init = "ok"
  /\ ~hist.wfail
  /\ Len(hist.written) = MaxWritten
  /\ last.name = "Write"
  /\ last.res = OK
  /\ last.base > hist.hsOut
  /\ last.req # <<>>

\* C6: as long as no socket call has failed, an SSL_Read returns the same result
\* and the same bytes as the same call made in the same session on a socket that
\* delivers all it has in one call, however this session's socket has split them.
BoundaryIndependence ==
  (pc = "idle" /\ last.name = "Read" /\ hist.init = "ok" /\ whole.clean)
    => /\ last.res = whole.res
       /\ last.data = whole.data

\* C6's case: an SSL_Read that returned bytes after several Socket_Read calls,
\* while the other socket had delivered more than the record they are from.
SplitDiffers ==
  /\ pc = "idle"
  /\ last.name = "Read"
  /\ last.res = OK
  /\ last.data # <<>>
  /\ last.nRecv > 1
  /\ hist.init = "ok"
  /\ whole.clean
  /\ whole.ctx # ctx

\* C7: an SSL_Read that finds decrypted data from previously returns bytes of it
\* only, without reading the socket, and when it uses it up the ciphertext left
\* over is moved to the start of the buffer; an SSL_Read that finds no
\* decrypted data but a whole record in the buffer returns that record's first
\* bytes without reading the socket.
LeftoverHandling ==
  [][ReadCalled =>
       LET d    == DecryptMessage(Established, suite, Filled(ctx))
           win  == [i \in 1..ctx.decryptedSize |-> ctx.incoming[ctx.decryptedData + i - 1]]
           left == SubSeq(Filled(ctx), ctx.bufferLen - ctx.leftover + 1, ctx.bufferLen)
           n    == last'.count
       IN  /\ ctx.decryptedData # NULL
             => /\ pc' = "idle"
                /\ last'.res = OK
                /\ last'.data = Take(win, min(n, Len(win)))
                /\ sockIn' = sockIn
                /\ n >= Len(win) => ctx'.decryptedData = NULL /\ Filled(ctx') = left
           /\ (ctx.decryptedData = NULL /\ ctx.bufferLen > 0 /\ d.sec = SEC_E_OK)
             => /\ pc' = "idle"
                /\ last'.res = OK
                /\ last'.data = Take(d.plain, min(n, Len(d.plain)))
                /\ sockIn' = sockIn
                /\ last'.nRecv = 0]_vars

\* C7's case: one Socket_Read has stored two whole records in the empty buffer,
\* and an SSL_Read has returned bytes of the second one (its first byte is not the
\* stream's first) without decrypted data from previously and without reading
\* the socket.
SecondRecordFromLeftover ==
  /\ hist.burst
  /\ pc = "idle"
  /\ last.name = "Read"
  /\ last.res = OK
  /\ ~last.win
  /\ last.nRecv = 0
  /\ last.data # <<>>
  /\ last.data[1].v > 1

\* C8: every SSL_Read that returns 0 has read at least one byte. (The code
\* returns 0 with *read = 0 for a record without plaintext.)
ReadReturnsAtLeastOne ==
  (pc = "idle" /\ last.name = "Read" /\ last.res = OK) => Len(last.data) >= 1

\* C9: however often SSL_Free is called, the security context, the credentials
\* handle and the memory of a session are released once at most, and every call
\* returns. (The code releases them at every call.)
ReleasedOnce ==
  /\ freed.context <= 1
  /\ freed.handle <= 1
  /\ freed.mem <= 1
  /\ pc # "crashed"

\* C10: a call of SSL_Free on a session that has not been freed, whatever state
\* the session is in, returns in that step with the security context deleted,
\* the credentials handle freed and the memory freed, and leaves the socket as
\* it is: nothing read, nothing written, no socket call made.
FreeReleasesAll ==
  [][FreeCalled =>
       /\ pc' = "idle"
       /\ last'.name = "Free"
       /\ last'.res = OK
       /\ eng' = "deleted"
       /\ handle' = "freed"
       /\ mem' = "freed"
       /\ sockIn' = sockIn
       /\ sockOut' = sockOut
       /\ sockErrs' = sockErrs]_vars

\* C10's case: SSL_Free has returned on an established session whose SSL_Write
\* had failed.
FreedAfterFailure ==
  /\ pc = "idle"
  /\ last.name = "Free"
  /\ freed.mem = 1
  /\ hist.init = "ok"
  /\ hist.wfail
  /\ mem = "freed"

NoBackendFailsFirst ==
  backend # "ok"
    => /\ mem = "none" /\ handle = "none" /\ eng = "none" /\ ~fpLoaded
       /\ sockOut = <<>> /\ sockIn = wireIn /\ sockErrs = 0
       /\ pc = "idle"
       /\ life # "Uninitialized"
            => /\ life = "Failed"
               /\ last.name = "Init"
               /\ last.io = "none"
               /\ last.res = IF backend = "unloaded" THEN HTTP_ERR_NO_SSL
                                                     ELSE ERR_NOT_SUPPORTED

\* C12's case: SSL_Init has returned for want of a function table.
NoFunctionTable ==
  /\ backend = "notable"
  /\ pc = "idle"
  /\ last.name = "Init"
  /\ last.res = ERR_NOT_SUPPORTED
  /\ life = "Failed"

\* C13: once SSL_Init, SSL_Read or SSL_Write has returned a failure, every later
\* SSL_Read or SSL_Write returns a failure without reaching a socket call.
\* (The code keeps no record of a failure: a later call runs as any other.)
FailedIsTerminal ==
  life = "Failed" => pc = "idle" /\ last.res # OK

\* The results the engine's calls fail with.
SecurityFailures ==
  {SEC_E_INCOMPLETE_MESSAGE, SEC_E_UNTRUSTED_ROOT, SEC_E_INVALID_TOKEN,
   SEC_E_INVALID_HANDLE, SEC_E_MESSAGE_ALTERED, SEC_E_INTERNAL_ERROR,
   SEC_E_SECPKG_NOT_FOUND}

\* This step is a Socket_Read, made by SSL_RecvRaw, that stored no byte and
\* reported no error.
ZeroRead ==
  /\ pc \in {"neg_recv", "read_recv"}
  /\ \/ pc' = "idle" /\ last'.io = "zero"
     \/ pc' # "idle" /\ op'.io = "zero"

\* C14: when a Socket_Read made for SSL_Negotiate or SSL_Read stores no byte and
\* reports no error, the call returns ERR_END_OF_STREAM in that step, which is
\* not the result for a full buffer, for a socket error or for an engine
\* failure, and the buffer and its fill length stay as they are.
ZeroReadIsEndOfStream ==
  [][ZeroRead =>
       /\ pc' = "idle"
       /\ last'.name = op.name
       /\ last'.res = ERR_END_OF_STREAM
       /\ last'.res \notin {OK, ERR_INVALID_ARGUMENT, SOCK_ERR} \cup SecurityFailures
       /\ ctx' = ctx
       /\ sockIn' = sockIn]_vars

\* C14's case: the stream ended inside a record, whose first bytes SSL_Read had
\* stored.
EndOfStreamInsideRecord ==
  /\ pc = "idle"
  /\ last.name = "Read"
  /\ last.io = "zero"
  /\ last.res = ERR_END_OF_STREAM
  /\ ctx.bufferLen > 0
  /\ sockIn = <<>>

\* This step is a Socket_Write, made by SSL_SendRaw, that took no byte and
\* reported no error.
ZeroSend ==
  /\ pc \in {"connect_send", "neg_send", "write_send"}
  /\ \/ pc' = "idle" /\ last'.io = "zero"
     \/ pc' # "idle" /\ op'.io = "zero"

\* C15: in SSL_SendRaw, a Socket_Write that takes k bytes, fewer than are left
\* to send, takes the first k of them and leaves the call at its next
\* Socket_Write with exactly the others left, in order; a Socket_Write that
\* takes no byte ends the call in that step with ERR_END_OF_STREAM, nothing
\* more written.
PartialSendGoesOn ==
  [][(pc \in {"connect_send", "neg_send", "write_send"}) =>
       LET k == Len(sockOut') - Len(sockOut)
       IN  /\ k \in 0..Len(op.pending)
           /\ sockOut' = sockOut \o Take(op.pending, k)
           /\ (0 < k /\ k < Len(op.pending))
                => (pc' = pc /\ op'.pending = Drop(op.pending, k) /\ ctx' = ctx)
           /\ ZeroSend
                => (k = 0 /\ pc' = "idle" /\ last'.name = op.name
                          /\ last'.res = ERR_END_OF_STREAM)
      ]_vars

\* C15's case: an SSL_Write whose record was sent in part, and whose next
\* Socket_Write took nothing.
SentPartThenNothing ==
  /\ pc = "idle"
  /\ last.name = "Write"
  /\ last.io = "zero"
  /\ last.res = ERR_END_OF_STREAM
  /\ Len(sockOut) > last.base
  /\ ~Records(ctx.sizes, Drop(sockOut, last.base)).ok

\* C16: a call of SSLBackend_DescribeError returns true and makes one text the
\* string's new end, all before it as it was, when the result is one of
\* SEC_E_UNTRUSTED_ROOT (the certificate "was issued by an authority that is
\* not trusted"), SEC_E_CERT_EXPIRED, TRUST_E_CERT_SIGNATURE and
\* SEC_E_UNSUPPORTED_FUNCTION, each with its own text; for every other result
\* it returns false and the string is as it was.
DescribesFourCodes ==
  [][LET n == Len(errText)
         text == errText'[n + 1]
     IN  /\ errCode' \in {SEC_E_UNTRUSTED_ROOT, SEC_E_CERT_EXPIRED,
                          TRUST_E_CERT_SIGNATURE, SEC_E_UNSUPPORTED_FUNCTION}
              => (described' /\ Len(errText') = n + 1 /\ Take(errText', n) = errText)
         /\ errCode' = SEC_E_UNTRUSTED_ROOT
              => text = "The website's SSL certificate was issued by an authority that is not trusted"
         /\ errCode' = SEC_E_CERT_EXPIRED
              => text = "The website's SSL certificate has expired"
         /\ errCode' = TRUST_E_CERT_SIGNATURE
              => text = "The signature of the website's SSL certificate cannot be verified"
         /\ errCode' = SEC_E_UNSUPPORTED_FUNCTION
              => text = "The website uses an incompatible SSL/TLS version"
         /\ errCode' \notin {SEC_E_UNTRUSTED_ROOT, SEC_E_CERT_EXPIRED,
                             TRUST_E_CERT_SIGNATURE, SEC_E_UNSUPPORTED_FUNCTION}
              => (~described' /\ errText' = errText)
    ]_vars

\* C16's case: the caller's string with the text for an untrusted root after it.
DescribedUntrustedRoot ==
  /\ described
  /\ errCode = SEC_E_UNTRUSTED_ROOT
  /\ errText = <<"SSL error: ",
                 "The website's SSL certificate was issued by an authority that is not trusted">>

\* The statuses a handshake step ends with.
StepStatuses ==
  {SEC_E_OK, SEC_I_CONTINUE_NEEDED, SEC_E_INCOMPLETE_MESSAGE, SEC_E_UNTRUSTED_ROOT,
   SEC_E_INVALID_TOKEN}

\* C17: in SSL_Negotiate, on a buffer filled to f, a handshake step that reports
\* n > 0 unprocessed bytes (n <= f) leaves the buffer filled to n with the former
\* bytes [f-n, f) at its front in their order, whatever the step's status; a
\* step that reports none and does not ask for more data leaves it filled to 0;
\* a step that reports none and asks for more data leaves buffer and fill length
\* as they were.
ExtraMovesToFront ==
  \A sec \in StepStatuses : \A n \in 0..ctx.bufferLen :
    LET f  == ctx.bufferLen
        c1 == SSL_NegotiateShift(ctx, sec, n)
    IN  /\ n > 0 => /\ c1.bufferLen = n
                    /\ Filled(c1) = SubSeq(Filled(ctx), f - n + 1, f)
        /\ (n = 0 /\ sec # SEC_E_INCOMPLETE_MESSAGE) => c1.bufferLen = 0
        /\ (n = 0 /\ sec = SEC_E_INCOMPLETE_MESSAGE) => c1 = ctx

\* C17's case: the handshake's last step reported unprocessed bytes, and they are
\* what the buffer holds when SSL_Init returns.
HandshakeLeftExtra ==
  /\ pc = "idle"
  /\ last.name = "Init"
  /\ last.res = OK
  /\ ctx.bufferLen > 0
  /\ Filled(ctx) = SubSeq(wireIn, Len(wireIn) - Len(sockIn) - ctx.bufferLen + 1,
                          Len(wireIn) - Len(sockIn))

\* The output tokens of a handshake in which the engine asked k times to go on.
RECURSIVE Tokens(_)
Tokens(k) == IF k = 0 THEN ClientHello ELSE Tokens(k - 1) \o ClientReply

\* The server flights that ask the client to go on, among the first n bytes of wireIn.
Continues(n) == Cardinality({i \in 1..n : wireIn[i] = HsContinue})

\* The bytes of wireIn the engine has consumed.
Consumed == Len(wireIn) - Len(sockIn) - ctx.bufferLen

\* C18: during SSL_Init every output token of the engine (the hello, and the
\* token of each step that says to go on) goes to the socket whole, by as many
\* Socket_Write calls as it takes, before the engine's next step and before any
\* Socket_Read: while a token is being sent, what the socket has taken and what is
\* left of the token are the tokens so far, Socket_Read is not called, and the
\* context is not touched; when SSL_Init waits for the server, the socket has
\* taken whole tokens only, one for each step so far. When the sending fails,
\* SSL_Init returns that failure and the engine has made no further step.
TokensSentWhole ==
  /\ [](/\ (pc \in {"connect_send", "neg_send"})
             => (op.pending # <<>> /\ sockOut \o op.pending = Tokens(Continues(Consumed)))
        /\ (pc = "neg_recv") => (sockOut = Tokens(Continues(Consumed))))
  /\ [][(pc \in {"connect_send", "neg_send"})
          => LET sent == Len(sockOut') - Len(sockOut)
             IN  /\ sockIn' = sockIn
                 /\ sockOut' = sockOut \o Take(op.pending, sent)
                 /\ (sent > 0 /\ sent < Len(op.pending))
                      => (pc' = pc /\ op'.pending = Drop(op.pending, sent)
                          /\ ctx' = ctx /\ eng' = eng)
                 /\ (sent = 0)
                      => (pc' = "idle" /\ last'.name = "Init" /\ ctx' = ctx /\ eng' = eng
                          /\ last'.res = (IF last'.io = "error" THEN SOCK_ERR
                                          ELSE ERR_END_OF_STREAM))
       ]_vars

\* C18's case: the hello is out, the first flight has been answered, and the
\* socket has taken the first byte of the reply: the rest is still to be sent.
ReplySentInPart ==
  /\ pc = "neg_send"
  /\ op.name = "Init"
  /\ op.io = "bytes"
  /\ sockOut = ClientHello \o Take(ClientReply, 1)
  /\ op.pending = Drop(ClientReply, 1)
  /\ Continues(Consumed) = 1

\* The decrypted data not yet returned: incoming[decryptedData .. +decryptedSize).
Window(c) == [i \in 1..c.decryptedSize |-> c.incoming[c.decryptedData + i - 1]]

\* C19: as long as there is decrypted data not yet returned, it is not empty, it
\* lies in the buffer before the ciphertext left over, no call is at SSL_RecvRaw,
\* and no step reads the socket; nothing changes the context but an SSL_Read,
\* which returns at once, without a socket call, one or more of the first bytes
\* of that data; and the buffer's bytes, fill length and leftover count stay as
\* they are until that data is used up. So ciphertext is stored only when there
\* is no such data.
WindowBeforeCiphertext ==
  /\ [](ctx.decryptedData # NULL
          => /\ pc \notin {"neg_recv", "read_recv"}
             /\ ctx.decryptedSize > 0
             /\ ctx.decryptedData + ctx.decryptedSize - 1 <= ctx.bufferLen - ctx.leftover)
  /\ [][(ctx.decryptedData # NULL)
          => /\ sockIn' = sockIn
             /\ pc' \notin {"neg_recv", "read_recv"}
             /\ (ReadCalled \/ ctx' # ctx)
                  => (/\ pc' = "idle"
                      /\ last'.name = "Read"
                      /\ last'.res = OK
                      /\ last'.nRecv = 0
                      /\ last'.data # <<>>
                      /\ last'.data = Take(Window(ctx), Len(last'.data))
                      /\ Window(ctx) = last'.data \o Window(ctx'))
             /\ (ctx'.decryptedData # NULL)
                  => (/\ ctx'.incoming = ctx.incoming
                      /\ ctx'.bufferLen = ctx.bufferLen
                      /\ ctx'.leftover = ctx.leftover)
       ]_vars
  /\ [][(sockIn' # sockIn \/ ctx'.bufferLen > ctx.bufferLen) => ctx.decryptedData = NULL]_vars

\* C19's case: an SSL_Read found decrypted data from previously and returned a
\* byte of it, more of it is still to be returned, and the next record waits on
\* the socket unread.
WindowServedWhileSocketWaits ==
  /\ pc = "idle"
  /\ last.name = "Read"
  /\ last.res = OK
  /\ last.win
  /\ last.data # <<>>
  /\ ctx.decryptedData # NULL
  /\ sockIn # <<>>

\* The contexts SSL_Read calls SSL_ReadDecrypted on in this state: the context as
\* it is when it has decrypted data from previously, and otherwise, when the
\* buffer holds a whole record, the context as DecryptMessage's buffers set it.
Served ==
  LET d == DecryptMessage(Established, suite, Filled(ctx))
  IN  IF ctx.decryptedData # NULL THEN {ctx}
      ELSE IF ctx.bufferLen # 0 /\ d.sec = SEC_E_OK
      THEN {[ctx EXCEPT !.incoming      = Store(@, suite.cbHeader, d.plain),
                        !.decryptedData = suite.cbHeader + 1,
                        !.decryptedSize = Len(d.plain),
                        !.leftover      = d.extra]}
      ELSE {}

\* C20: SSL_ReadDecrypted on decrypted data of w bytes with a count of c returns
\* min(c, w) bytes, the data's first. With c < w the data begins c bytes further
\* on and is c bytes shorter, and nothing else of the context changes (the fill
\* length and the leftover count among it). With c >= w there is no decrypted
\* data any more, the buffer's last `leftover` bytes are at its front in their
\* order, the fill length is that count and the leftover count is 0.
ServeSlidesOrClears ==
  \A c0 \in Served : \A c \in 0..Cap :
    LET w    == c0.decryptedSize
        s    == SSL_ReadDecrypted(c0, c)
        left == SubSeq(Filled(c0), c0.bufferLen - c0.leftover + 1, c0.bufferLen)
    IN  /\ s.res = OK
        /\ Len(s.data) = min(c, w)
        /\ s.data = Take(Window(c0), min(c, w))
        /\ c < w  => s.ctx = [c0 EXCEPT !.decryptedData = c0.decryptedData + c,
                                        !.decryptedSize = w - c]
        /\ c >= w => /\ s.ctx.decryptedData = NULL
                     /\ s.ctx.decryptedSize = 0
                     /\ s.ctx.bufferLen = c0.leftover
                     /\ s.ctx.leftover = 0
                     /\ Filled(s.ctx) = left
                     /\ s.ctx.sizes = c0.sizes

\* C20's case: an SSL_Read has returned the first byte of a record's plaintext and
\* left the rest, and the next SSL_Read has returned the rest: the ciphertext that
\* was left over is what the buffer holds now, from its front.
SlidThenCleared ==
  /\ pc = "idle"
  /\ last.name = "Read"
  /\ last.res = OK
  /\ last.win
  /\ last.nRecv = 0
  /\ last.data # <<>>
  /\ ctx.decryptedData = NULL
  /\ ctx.bufferLen > 0
  /\ Filled(ctx) = SubSeq(wireIn, Len(wireIn) - Len(sockIn) - ctx.bufferLen + 1,
                          Len(wireIn) - Len(sockIn))

\* This step is a Socket_Read or Socket_Write that returns an error.
SocketFails ==
  /\ pc \in {"connect_send", "neg_send", "write_send", "neg_recv", "read_recv"}
  /\ sockErrs' = sockErrs + 1
  /\ (pc' = "idle" => last'.io = "error")
  /\ (pc' # "idle" => op'.io = "error")

\* C21: when a Socket_Read or Socket_Write made by SSL_Init, SSL_Read or
\* SSL_Write returns an error, the function that made it returns that error to
\* its caller at once: no other socket call (the socket's input and output are
\* as they were) and no other call of the engine (the context and the engine's
\* state are as they were) comes between the error and the return.
SocketErrorIsReturned ==
  [][SocketFails
       => /\ pc' = "idle"
          /\ last'.name = op.name
          /\ last'.res = SOCK_ERR
          /\ last'.data = <<>>
          /\ last'.wrote = op.wrote
          /\ sockIn' = sockIn
          /\ sockOut' = sockOut
          /\ ctx' = ctx
          /\ eng' = eng
    ]_vars

\* C21's case: an SSL_Read had stored part of a record when its next Socket_Read
\* returned an error, and SSL_Read returned that error.
ReadFailedInsideRecord ==
  /\ pc = "idle"
  /\ last.name = "Read"
  /\ last.io = "error"
  /\ last.res = SOCK_ERR
  /\ last.nRecv > 1
  /\ ctx.bufferLen > 0

\* The length of the server's handshake at the head of `wire`: its flights up to
\* and with the first that does not ask the client to go on.
RECURSIVE HandshakeLen(_)
HandshakeLen(wire) ==
  LET total == 1 + wire[1].v
  IN  IF wire = <<>> \/ Len(wire) < total THEN Len(wire)
      ELSE IF wire[total] = HsContinue THEN total + HandshakeLen(Drop(wire, total))
      ELSE total

\* The bytes of wireIn the socket has delivered.
Delivered == Len(wireIn) - Len(sockIn)

\* SSL_Init has returned 0 and no other call has been made since.
JustEstablished == pc = "idle" /\ last.name = "Init" /\ last.res = OK

\* C22: the bytes the engine reports as unprocessed on the step that completes
\* the handshake are kept: when SSL_Init has returned 0 the buffer holds the
\* bytes the socket delivered after the handshake's last, all of them and in
\* their order, and the fill length is their count; the first SSL_Read, when
\* there are such bytes, gives them to DecryptMessage before any Socket_Read: it
\* returns the plaintext of a whole record or the engine's failure without a
\* socket call, and goes to the socket only on SEC_E_INCOMPLETE_MESSAGE, the
\* bytes still in the buffer.
HandshakeExtraKept ==
  /\ [](JustEstablished
          => /\ ctx.decryptedData = NULL
             /\ ctx.bufferLen = Delivered - HandshakeLen(wireIn)
             /\ Filled(ctx) = SubSeq(wireIn, HandshakeLen(wireIn) + 1, Delivered))
  /\ [][(JustEstablished /\ ReadCalled /\ ctx.bufferLen > 0)
          => LET d == DecryptMessage(TRUE, suite, Filled(ctx))
                 n == last'.count
             IN  /\ sockIn' = sockIn
                 /\ d.sec = SEC_E_OK
                      => (/\ pc' = "idle"
                          /\ last'.res = OK
                          /\ last'.nRecv = 0
                          /\ last'.data = Take(d.plain, min(n, Len(d.plain))))
                 /\ d.sec \notin {SEC_E_OK, SEC_E_INCOMPLETE_MESSAGE}
                      => (pc' = "idle" /\ last'.res = d.sec /\ last'.nRecv = 0)
                 /\ d.sec = SEC_E_INCOMPLETE_MESSAGE
                      => (pc' = "read_recv" /\ ctx' = ctx)
       ]_vars

\* C22's case: the handshake's last flight came with a whole record behind it, and
\* the first SSL_Read has returned the stream's first byte without a Socket_Read.
FirstReadFromHandshakeExtra ==
  /\ pc = "idle"
  /\ last.name = "Read"
  /\ last.res = OK
  /\ last.nRecv = 0
  /\ ~last.win
  /\ last.data # <<>>
  /\ last.data[1] = Plain(1)
  /\ hist.written = <<>>
  /\ ~hist.wfail

\* C23: every SSL_Read returns when every Socket_Read and DecryptMessage does:
\* a pass of its loop that does not return raises the fill length by 1 or more,
\* so that the Socket_Read calls of one SSL_Read are no more than the fill length
\* and no more than TLS_MAX_PACKET_SIZE, and its DecryptMessage calls no more
\* than TLS_MAX_PACKET_SIZE + 1, when it returns data or a failure.
ReadTerminates ==
  /\ [](/\ (pc = "read_recv") => (op.nRecv <= ctx.bufferLen /\ op.nDec <= op.nRecv + 1)
        /\ (pc = "idle" /\ last.name = "Read")
             => (last.nRecv <= Cap /\ last.nDec <= Cap + 1))
  /\ [][(pc = "read_recv" /\ pc' = "read_recv") => ctx'.bufferLen >= ctx.bufferLen + 1]_vars
  /\ ((pc = "read_recv") ~> (pc = "idle" /\ last.name = "Read"))

\* C23's case: an SSL_Read that began with an empty buffer has returned a record's
\* plaintext after as many Socket_Read calls as the buffer has bytes, each
\* followed by a DecryptMessage.
ReadFilledByteByByte ==
  /\ pc = "idle"
  /\ last.name = "Read"
  /\ last.res = OK
  /\ last.nRecv = Cap
  /\ last.nDec = Cap

\* C24: whatever sizes the engine reports when the handshake is done, every
\* record SSL_WriteChunk builds fits its buffer[]: cbHeader, the chunk's length
\* and cbTrailer together are no more than TLS_MAX_PACKET_SIZE, so that no byte
\* is written outside it.
RecordFitsStaging ==
  (pc \in {"write_send", "crashed"} /\ op.name = "Write")
    => ctx.sizes.cbHeader + op.wlen + ctx.sizes.cbTrailer <= Cap

\* This step's Socket_Write takes the last bytes of a record, and SSL_Write's
\* loop goes round to the next chunk.
NextChunk ==
  /\ pc = "write_send"
  /\ pc' = "write_send"
  /\ sockOut' = sockOut \o op.pending

\* This step's Socket_Write takes some bytes, and SSL_SendRaw's loop goes round.
NextSend ==
  /\ pc \in {"connect_send", "neg_send", "write_send"}
  /\ pc' = pc
  /\ sockOut' # sockOut \o op.pending

\* C25: an SSL_Write of one byte or more returns, whatever cbMaximumMessage the
\* handshake left in ctx->sizes (0 too): every round of its loop leaves fewer
\* bytes still to write, and every round of SSL_SendRaw's loop fewer bytes still
\* to send.
WriteLoopsCountDown ==
  [][/\ NextChunk => Len(op'.wdata) < Len(op.wdata)
     /\ NextSend  => Len(op'.pending) < Len(op.pending)
    ]_vars

====
